---------------------------- MODULE Spec2Model ----------------------------
(***************************************************************************)
(* Model of classroom_monitor.py: camera acquisition with fallback         *)
(* (open_camera), and the monitoring loop of main(): read a frame, count   *)
(* and classify the person boxes, push the frame's engagement ratio into   *)
(* a 30-frame window, time-gated append of a record to the CSV log, and    *)
(* the 'q' key exit.                                                       *)
(*                                                                         *)
(* The environment is: whether each VideoCapture opens, what cap.read()    *)
(* returns, what the detector returns for a frame, the readings of the     *)
(* wall clock, the keys the operator presses, the log file found at        *)
(* start, and whether open(LOG_FILE, "a") raises (never, in SpecStoreOk).  *)
(*                                                                         *)
(* Time is counted in ticks of 1/TicksPerSec second.  Engagement ratios    *)
(* are exact rationals kept as integers in units of 1/Den.                 *)
(***************************************************************************)
EXTENDS Integers, Sequences, FiniteSets, TLC

(***************************************************************************)
(* Program constants.                                                      *)
(***************************************************************************)
LOG_INTERVAL == 10
USE_GSTREAMER == TRUE
WINDOW_MAXLEN == 30
ORD_Q == 113
ZONE_LO == 33
ZONE_HI == 66

(***************************************************************************)
(* Bounds of the model.                                                    *)
(***************************************************************************)
MaxFrames == 32
PatLen == 2
TicksPerSec == 2
StartTime == 25

(***************************************************************************)
(* Inputs.  A frame is <<w, h, boxes>>, boxes being the xyxy boxes the     *)
(* detector returns for it.                                                *)
(***************************************************************************)
FrameSet ==
    { <<640, 480, << >> >>,
      <<640, 480, << <<200, 100, 260, 160>>, <<0, 0, 50, 50>> >> >>,
      <<640, 480, << <<300, 100, 340, 200>> >> >> }

\* Frames with one box each, for the zone rule: 100 x 100 frames with the
\* box centre on the left edge (33, 20), the right edge (66, 20) and the
\* lower edge (50, 66) of the zone, just inside it (34, 65), and just
\* outside it (32, 20), (67, 20), (50, 67); and frames of several sizes
\* with the box centred at (w / 2, h / 2).
ZoneFrames ==
    { <<100, 100, << <<23, 10, 43, 30>> >> >>,
      <<100, 100, << <<56, 10, 76, 30>> >> >>,
      <<100, 100, << <<40, 56, 60, 76>> >> >>,
      <<100, 100, << <<24, 55, 44, 75>> >> >>,
      <<100, 100, << <<22, 10, 42, 30>> >> >>,
      <<100, 100, << <<57, 10, 77, 30>> >> >>,
      <<100, 100, << <<40, 57, 60, 77>> >> >> }
    \cup { <<w, h, << <<0, 0, w, h>> >> >> :
              w \in {1, 3, 640}, h \in {1, 2, 480} }

\* A camera that delivers the same zone frame again and again.
ZoneStreams ==
    { [first |-> f, pattern |-> [i \in 1..PatLen |-> f]] : f \in ZoneFrames }

\* What the camera delivers: a first frame, then a pattern of frames,
\* repeated.
Streams == [first : FrameSet, pattern : [1..PatLen -> FrameSet]]

\* Seconds between consecutive readings of the clock at the gate, repeated.
LatencyPatterns == { <<0, 0>>, <<5, 5>>, <<10, 10>>, <<5, 10>>, <<0, 11>> }

\* Key codes cv2.waitKey can return for a pressed key: 'q', 'x', and 'q'
\* with a modifier bit above the low byte.
KeyCodes == {113, 120, 369}
NoKey == -1

HeaderLine == [ts |-> -1, n |-> -1, eng |-> -1]

\* The log file found at start: absent, or present with some content.
PriorFiles ==
    { [exists |-> FALSE, lines |-> << >>],
      [exists |-> TRUE, lines |-> << >>],
      [exists |-> TRUE,
       lines |-> <<HeaderLine, [ts |-> 0, n |-> 4, eng |-> 250]>>] }

VARIABLES
    pc,                  \* position in main()/open_camera()
    attempts,            \* VideoCapture constructions so far, in order
    cap,                 \* "none", "open", "released"
    engagement_history,  \* the deque(maxlen=30)
    last_log_time,       \* ticks
    clock,               \* wall clock, ticks
    now,                 \* the loop's local 'now'
    fileExists,          \* os.path.exists(LOG_FILE)
    file,                \* lines of LOG_FILE
    key,                 \* key pressed and not yet taken by waitKey
    frames,              \* frames read successfully
    reads,               \* calls of cap.read()
    stream,              \* input: the camera's frames
    latency,             \* input: the clock's advance per iteration
    num_students,        \* local of the current iteration
    engaged_count,       \* local of the current iteration
    smooth_engagement,   \* local of the current iteration, <<num, den>>
    pushed,              \* history: every ratio appended to the window
    file0,               \* history: the file at start
    existed0,            \* history: whether the file existed at start
    appended,            \* history: records written by this run
    gates,               \* history: per completed gate, now, the
                         \* last_log_time it saw, records written so far
    exitCause            \* history: why the loop was left

vars == <<pc, attempts, cap, engagement_history, last_log_time, clock, now,
          fileExists, file, key, frames, reads, stream, latency,
          num_students, engaged_count, smooth_engagement, pushed, file0,
          existed0, appended, gates, exitCause>>

(***************************************************************************)
(* Pure computations of the loop body.                                     *)
(***************************************************************************)
Max(a, b) == IF a >= b THEN a ELSE b

RECURSIVE Gcd(_, _)
Gcd(a, b) == IF b = 0 THEN a ELSE Gcd(b, a % b)

Lcm(a, b) == (a * b) \div Gcd(a, b)

RECURSIVE LcmOfSet(_)
LcmOfSet(S) ==
    IF S = {} THEN 1
    ELSE LET x == CHOOSE y \in S : TRUE
         IN  Lcm(Max(x, 1), LcmOfSet(S \ {x}))

\* Every ratio engaged_count / num_students the inputs can produce is a
\* whole number of 1/Den.
Den == LcmOfSet({ Len(f[3]) : f \in FrameSet })

\* Mutant: the edges of the zone belong to it.
InMiddleXInclusive(box, w) ==
    /\ ZONE_LO * w * 2 <= 100 * (box[1] + box[3])
    /\ 100 * (box[1] + box[3]) <= ZONE_HI * w * 2

\* in_middle_x = (w * 0.33) < cx < (w * 0.66), cx = (x1 + x2) / 2.0
InMiddleX(box, w) ==
    /\ ZONE_LO * w * 2 < 100 * (box[1] + box[3])
    /\ 100 * (box[1] + box[3]) < ZONE_HI * w * 2

\* in_upper_y = cy < (h * 0.66), cy = (y1 + y2) / 2.0
InUpperY(box, h) == 100 * (box[2] + box[4]) < ZONE_HI * h * 2

Engaged(box, w, h) == InMiddleX(box, w) /\ InUpperY(box, h)

\* The for-loop over the boxes.
RECURSIVE EngagedCount(_, _, _)
EngagedCount(boxes, w, h) ==
    IF boxes = << >> THEN 0
    ELSE (IF Engaged(Head(boxes), w, h) THEN 1 ELSE 0)
         + EngagedCount(Tail(boxes), w, h)

\* Mutant: the ratio is taken with integer division.
EngagementRatioFloorDiv(engaged, n) ==
    IF n > 0 THEN (engaged \div n) * Den ELSE 0

\* engagement_ratio, in units of 1/Den.
EngagementRatio(engaged, n) ==
    IF n > 0 THEN (engaged * Den) \div n ELSE 0

\* Mutant: a deque without maxlen.
DequeAppendUnbounded(d, x) == Append(d, x)

\* deque(maxlen=30).append
DequeAppend(d, x) ==
    IF Len(d) >= WINDOW_MAXLEN THEN Append(Tail(d), x) ELSE Append(d, x)

RECURSIVE SumSeq(_)
SumSeq(s) == IF s = << >> THEN 0 ELSE Head(s) + SumSeq(Tail(s))

\* Mutant: the sum of the window is not divided by its length.
SmoothOfSum(d) ==
    IF Len(d) > 0 THEN <<SumSeq(d), Den>> ELSE <<0, 1>>

\* smooth_engagement, as the fraction <<numerator, denominator>>.
SmoothOf(d) ==
    IF Len(d) > 0 THEN <<SumSeq(d), Den * Len(d)>> ELSE <<0, 1>>

\* f"{smooth_engagement:.3f}": thousandths, ties to even.
Fmt3(q) ==
    LET whole == (1000 * q[1]) \div q[2]
        rem2  == 2 * ((1000 * q[1]) % q[2])
    IN  IF rem2 > q[2] \/ (rem2 = q[2] /\ whole % 2 = 1)
        THEN whole + 1 ELSE whole

\* datetime.now().isoformat(timespec="seconds"): the fraction is dropped.
IsoSeconds(t) == t \div TicksPerSec

\* Mutant: the gate opens only after more than LOG_INTERVAL.
DueStrict(t, last) == t - last > LOG_INTERVAL * TicksPerSec

\* Mutant: LOG_INTERVAL is taken in the clock's unit, not in seconds.
DueInTicks(t, last) == t - last >= LOG_INTERVAL

\* now - last_log_time >= LOG_INTERVAL
Due(t, last) == t - last >= LOG_INTERVAL * TicksPerSec

\* cv2.waitKey(1) & 0xFF == ord("q")
IsQuit(k) == (k % 256) = ORD_Q

\* The frame the k-th successful read delivers, and the clock's advance
\* while waiting for it.
FrameAt(k) ==
    IF k = 1 THEN stream.first
    ELSE stream.pattern[((k - 2) % Len(stream.pattern)) + 1]

LatencyAt(k) == latency[((k - 1) % Len(latency)) + 1] * TicksPerSec

LoopPcs == {"read", "process", "log", "waitkey"}

(***************************************************************************)
(* Initial state: main() is about to call open_camera().                   *)
(***************************************************************************)
Init ==
    /\ pc = IF USE_GSTREAMER THEN "open_gst" ELSE "open_idx"
    /\ attempts = << >>
    /\ cap = "none"
    /\ engagement_history = << >>
    /\ last_log_time = 0
    /\ clock = StartTime
    /\ now = 0
    /\ \E f \in PriorFiles :
          /\ fileExists = f.exists
          /\ file = f.lines
          /\ file0 = f.lines
          /\ existed0 = f.exists
    /\ key = NoKey
    /\ frames = 0
    /\ reads = 0
    /\ stream \in Streams
    /\ latency \in LatencyPatterns
    /\ num_students = 0
    /\ engaged_count = 0
    /\ smooth_engagement = <<0, 1>>
    /\ pushed = << >>
    /\ appended = << >>
    /\ gates = << >>
    /\ exitCause = "none"

(***************************************************************************)
(* open_camera()                                                           *)
(***************************************************************************)
\* Mutant: a GStreamer failure is reported as failure at once.
TryGStreamerNoFallback(opened) ==
    /\ pc = "open_gst"
    /\ attempts' = Append(attempts,
                          [method |-> "gstreamer", opened |-> opened])
    /\ IF opened
       THEN cap' = "open" /\ pc' = "setup"
       ELSE cap' = cap /\ pc' = "no_camera"
    /\ UNCHANGED <<engagement_history, last_log_time, clock, now, fileExists,
                   file, key, frames, reads, stream, latency, num_students,
                   engaged_count, smooth_engagement, pushed, file0,
                   existed0, appended, gates, exitCause>>

\* cap = cv2.VideoCapture(GST_PIPELINE, cv2.CAP_GSTREAMER); cap.isOpened()
TryGStreamer(opened) ==
    /\ pc = "open_gst"
    /\ attempts' = Append(attempts,
                          [method |-> "gstreamer", opened |-> opened])
    /\ IF opened
       THEN cap' = "open" /\ pc' = "setup"
       ELSE cap' = cap /\ pc' = "open_idx"
    /\ UNCHANGED <<engagement_history, last_log_time, clock, now, fileExists,
                   file, key, frames, reads, stream, latency, num_students,
                   engaged_count, smooth_engagement, pushed, file0,
                   existed0, appended, gates, exitCause>>

\* Mutant: main() goes on without a camera.
TryIndex0Proceeds(opened) ==
    /\ pc = "open_idx"
    /\ attempts' = Append(attempts,
                          [method |-> "index0", opened |-> opened])
    /\ cap' = (IF opened THEN "open" ELSE cap)
    /\ pc' = "setup"
    /\ UNCHANGED <<engagement_history, last_log_time, clock, now, fileExists,
                   file, key, frames, reads, stream, latency, num_students,
                   engaged_count, smooth_engagement, pushed, file0,
                   existed0, appended, gates, exitCause>>

\* cap = cv2.VideoCapture(0); cap.isOpened(); else return None, and main
\* returns.
TryIndex0(opened) ==
    /\ pc = "open_idx"
    /\ attempts' = Append(attempts,
                          [method |-> "index0", opened |-> opened])
    /\ IF opened
       THEN cap' = "open" /\ pc' = "setup"
       ELSE cap' = cap /\ pc' = "no_camera"
    /\ UNCHANGED <<engagement_history, last_log_time, clock, now, fileExists,
                   file, key, frames, reads, stream, latency, num_students,
                   engaged_count, smooth_engagement, pushed, file0,
                   existed0, appended, gates, exitCause>>

(***************************************************************************)
(* main(), step 3: the window, last_log_time, and the CSV header.          *)
(***************************************************************************)
\* Mutant: the header is written with mode "w" whether or not the file
\* exists.
SetupTruncates ==
    /\ pc = "setup"
    /\ engagement_history' = << >>
    /\ last_log_time' = clock
    /\ file' = <<HeaderLine>>
    /\ fileExists' = TRUE
    /\ pc' = "read"
    /\ UNCHANGED <<attempts, cap, clock, now, key, frames, reads, stream,
                   latency, num_students, engaged_count, smooth_engagement,
                   pushed, file0, existed0, appended, gates, exitCause>>

\* Mutant: last_log_time starts as "never".
SetupLastNever ==
    /\ pc = "setup"
    /\ engagement_history' = << >>
    /\ last_log_time' = 0
    /\ IF ~fileExists
       THEN file' = <<HeaderLine>> /\ fileExists' = TRUE
       ELSE UNCHANGED <<file, fileExists>>
    /\ pc' = "read"
    /\ UNCHANGED <<attempts, cap, clock, now, key, frames, reads, stream,
                   latency, num_students, engaged_count, smooth_engagement,
                   pushed, file0, existed0, appended, gates, exitCause>>

Setup ==
    /\ pc = "setup"
    /\ engagement_history' = << >>
    /\ last_log_time' = clock
    /\ IF ~fileExists
       THEN file' = <<HeaderLine>> /\ fileExists' = TRUE
       ELSE UNCHANGED <<file, fileExists>>
    /\ pc' = "read"
    /\ UNCHANGED <<attempts, cap, clock, now, key, frames, reads, stream,
                   latency, num_students, engaged_count, smooth_engagement,
                   pushed, file0, existed0, appended, gates, exitCause>>

(***************************************************************************)
(* main(), step 4: the loop.                                               *)
(***************************************************************************)
\* Mutant: the stop key is looked at right after the read.
ReadFrameThenStop ==
    /\ pc = "read"
    /\ frames < MaxFrames
    /\ reads' = reads + 1
    /\ frames' = frames + 1
    /\ clock' = clock + LatencyAt(frames + 1)
    /\ IF IsQuit(key)
       THEN pc' = "release" /\ exitCause' = "stop_request"
       ELSE pc' = "process" /\ exitCause' = exitCause
    /\ UNCHANGED <<attempts, cap, engagement_history, last_log_time, now,
                   fileExists, file, key, stream, latency, num_students,
                   engaged_count, smooth_engagement, pushed, file0,
                   existed0, appended, gates>>

\* ret, frame = cap.read() with ret true.
ReadFrame ==
    /\ pc = "read"
    /\ frames < MaxFrames
    /\ reads' = reads + 1
    /\ frames' = frames + 1
    /\ clock' = clock + LatencyAt(frames + 1)
    /\ pc' = "process"
    /\ UNCHANGED <<attempts, cap, engagement_history, last_log_time, now,
                   fileExists, file, key, stream, latency, num_students,
                   engaged_count, smooth_engagement, pushed, file0,
                   existed0, appended, gates, exitCause>>

\* Mutant: a failed read is retried.
ReadFailRetries ==
    /\ pc = "read"
    /\ reads' = reads + 1
    /\ exitCause' = "read_failure"
    /\ pc' = "read"
    /\ UNCHANGED <<attempts, cap, engagement_history, last_log_time, clock,
                   now, fileExists, file, key, frames, stream, latency,
                   num_students, engaged_count, smooth_engagement, pushed,
                   file0, existed0, appended, gates>>

\* ret false: break.
ReadFail ==
    /\ pc = "read"
    /\ reads' = reads + 1
    /\ exitCause' = "read_failure"
    /\ pc' = "release"
    /\ UNCHANGED <<attempts, cap, engagement_history, last_log_time, clock,
                   now, fileExists, file, key, frames, stream, latency,
                   num_students, engaged_count, smooth_engagement, pushed,
                   file0, existed0, appended, gates>>

\* 4.1 - 4.3: detect, count, classify, push, smooth, show.
Process ==
    /\ pc = "process"
    /\ LET frame == FrameAt(frames)
           w     == frame[1]
           h     == frame[2]
           boxes == frame[3]
           n     == Len(boxes)
           e     == EngagedCount(boxes, w, h)
           ratio == EngagementRatio(e, n)
           hist  == DequeAppend(engagement_history, ratio)
       IN  /\ num_students' = n
           /\ engaged_count' = e
           /\ engagement_history' = hist
           /\ smooth_engagement' = SmoothOf(hist)
           /\ pushed' = Append(pushed, ratio)
    /\ pc' = "log"
    /\ UNCHANGED <<attempts, cap, last_log_time, clock, now, fileExists, file,
                   key, frames, reads, stream, latency, file0, existed0,
                   appended, gates, exitCause>>

\* Mutant: the record carries the frame's own ratio, not the smoothed one.
LogRecordUnsmoothed(t) ==
    [ts |-> IsoSeconds(t), n |-> num_students,
     eng |-> Fmt3(<<engagement_history[Len(engagement_history)], Den>>)]

\* The record 4.4 writes.
LogRecord(t) ==
    [ts |-> IsoSeconds(t), n |-> num_students, eng |-> Fmt3(smooth_engagement)]

\* Mutant: last_log_time is not reset after a write.
MaybeLogKeepsLast ==
    /\ pc = "log"
    /\ now' = clock
    /\ IF Due(clock, last_log_time)
       THEN /\ file' = Append(file, LogRecord(clock))
            /\ appended' = Append(appended, LogRecord(clock))
       ELSE UNCHANGED <<file, appended>>
    /\ gates' = Append(gates, [now |-> clock, last |-> last_log_time,
                               count |-> Len(appended')])
    /\ pc' = "waitkey"
    /\ UNCHANGED <<attempts, cap, engagement_history, last_log_time, clock,
                   fileExists, key, frames, reads, stream, latency,
                   num_students, engaged_count, smooth_engagement, pushed,
                   file0, existed0, exitCause>>

\* 4.4 with the append succeeding.
MaybeLog ==
    /\ pc = "log"
    /\ now' = clock
    /\ IF Due(clock, last_log_time)
       THEN /\ file' = Append(file, LogRecord(clock))
            /\ appended' = Append(appended, LogRecord(clock))
            /\ last_log_time' = clock
       ELSE UNCHANGED <<file, appended, last_log_time>>
    /\ gates' = Append(gates, [now |-> clock, last |-> last_log_time,
                               count |-> Len(appended')])
    /\ pc' = "waitkey"
    /\ UNCHANGED <<attempts, cap, engagement_history, clock, fileExists, key,
                   frames, reads, stream, latency, num_students,
                   engaged_count, smooth_engagement, pushed, file0, existed0,
                   exitCause>>

\* 4.4 with open(LOG_FILE, "a") raising OSError: nothing catches it, the
\* exception leaves main().
LogWriteFail ==
    /\ pc = "log"
    /\ Due(clock, last_log_time)
    /\ now' = clock
    /\ exitCause' = "write_error"
    /\ pc' = "crashed"
    /\ UNCHANGED <<attempts, cap, engagement_history, last_log_time, clock,
                   fileExists, file, key, frames, reads, stream, latency,
                   num_students, engaged_count, smooth_engagement, pushed,
                   file0, existed0, appended, gates>>

\* 4.5: cv2.waitKey(1) takes the pending key, if any.
WaitKey ==
    /\ pc = "waitkey"
    /\ key' = NoKey
    /\ IF IsQuit(key)
       THEN pc' = "release" /\ exitCause' = "stop_request"
       ELSE pc' = "read" /\ exitCause' = exitCause
    /\ UNCHANGED <<attempts, cap, engagement_history, last_log_time, clock,
                   now, fileExists, file, frames, reads, stream, latency,
                   num_students, engaged_count, smooth_engagement, pushed,
                   file0, existed0, appended, gates>>

\* The operator presses a key in the video window (shown since the first
\* frame was processed).
PressKey(k) ==
    /\ pc \in LoopPcs
    /\ Len(pushed) > 0
    /\ key = NoKey
    /\ key' = k
    /\ UNCHANGED <<pc, attempts, cap, engagement_history, last_log_time,
                   clock, now, fileExists, file, frames, reads, stream,
                   latency, num_students, engaged_count, smooth_engagement,
                   pushed, file0, existed0, appended, gates, exitCause>>

\* cap.release(); cv2.destroyAllWindows(); return.
Release ==
    /\ pc = "release"
    /\ cap' = "released"
    /\ pc' = "done"
    /\ UNCHANGED <<attempts, engagement_history, last_log_time, clock, now,
                   fileExists, file, key, frames, reads, stream, latency,
                   num_students, engaged_count, smooth_engagement, pushed,
                   file0, existed0, appended, gates, exitCause>>

\* The steps of the program when every append to the log store succeeds.
NextStoreOk ==
    \/ \E opened \in BOOLEAN : TryGStreamer(opened)
    \/ \E opened \in BOOLEAN : TryIndex0(opened)
    \/ Setup
    \/ ReadFrame
    \/ ReadFail
    \/ Process
    \/ MaybeLog
    \/ WaitKey
    \/ \E k \in KeyCodes : PressKey(k)
    \/ Release

Next == NextStoreOk \/ LogWriteFail

\* The program.
Spec == Init /\ [][Next]_vars

\* The program run against a log store that accepts every append.
SpecStoreOk == Init /\ [][NextStoreOk]_vars

\* The program in front of a camera that delivers a zone frame.
InitZone ==
    /\ pc = IF USE_GSTREAMER THEN "open_gst" ELSE "open_idx"
    /\ attempts = << >>
    /\ cap = "none"
    /\ engagement_history = << >>
    /\ last_log_time = 0
    /\ clock = StartTime
    /\ now = 0
    /\ \E f \in PriorFiles :
          /\ fileExists = f.exists
          /\ file = f.lines
          /\ file0 = f.lines
          /\ existed0 = f.exists
    /\ key = NoKey
    /\ frames = 0
    /\ reads = 0
    /\ stream \in ZoneStreams
    /\ latency \in LatencyPatterns
    /\ num_students = 0
    /\ engaged_count = 0
    /\ smooth_engagement = <<0, 1>>
    /\ pushed = << >>
    /\ appended = << >>
    /\ gates = << >>
    /\ exitCause = "none"

SpecZone == InitZone /\ [][Next]_vars

(***************************************************************************)
(* Properties.                                                             *)
(***************************************************************************)
IntervalTicks == LOG_INTERVAL * TicksPerSec

\* Records written by the i-th completed gate (0 or 1).
WrittenBy(i) == gates[i].count - (IF i = 1 THEN 0 ELSE gates[i - 1].count)

\* The step in which the loop passes the gate of 4.4.
GateStep == pc = "log" /\ pc' # "log"

WriteFails == exitCause # "write_error" /\ exitCause' = "write_error"

\* C3: a failed log write is non-fatal: the record of that interval is
\* lost, nothing is queued or retried, and the loop goes on to its next
\* step and further frames.
C3_WriteFailureNonFatal ==
    [][WriteFails =>
        /\ file' = file
        /\ last_log_time' = last_log_time
        /\ pc' = "waitkey"]_vars

\* C4: acquisition is an ordered fallback: GStreamer first; the device
\* index only after GStreamer reported not-opened, and before failure is
\* reported; the attempt that opens is the last one made; failure is
\* reported only after both attempts, in that order, failed.
C4_OrderedFallback ==
    /\ Len(attempts) <= 2
    /\ Len(attempts) >= 1 => attempts[1].method = "gstreamer"
    /\ Len(attempts) = 2 =>
          ~attempts[1].opened /\ attempts[2].method = "index0"
    /\ \A i \in 1..Len(attempts) : attempts[i].opened => i = Len(attempts)
    /\ pc = "no_camera" =>
          /\ Len(attempts) = 2
          /\ \A i \in 1..2 : ~attempts[i].opened
    /\ pc = "open_idx" => Len(attempts) = 1 /\ ~attempts[1].opened
    /\ pc \notin {"open_gst", "open_idx", "no_camera"} =>
          Len(attempts) >= 1 /\ attempts[Len(attempts)].opened
    /\ cap # "none" <=> \E i \in 1..Len(attempts) : attempts[i].opened

\* C4 witness: both attempts were made, GStreamer then index 0, and both
\* failed.
C4_Witness ==
    /\ pc = "no_camera"
    /\ Len(attempts) = 2
    /\ attempts[1] = [method |-> "gstreamer", opened |-> FALSE]
    /\ attempts[2] = [method |-> "index0", opened |-> FALSE]

BothFailed ==
    /\ Len(attempts) = 2
    /\ \A i \in 1..2 : ~attempts[i].opened

\* C5: when both acquisition attempts fail the run ends before the loop:
\* no frame is read, no detection is run, no record (and no header) is
\* written, and nothing further happens.
C5_NoLoopWithoutCamera ==
    /\ [](BothFailed =>
            /\ pc = "no_camera"
            /\ reads = 0 /\ frames = 0
            /\ pushed = << >> /\ gates = << >>
            /\ appended = << >>
            /\ file = file0 /\ fileExists = existed0)
    /\ [][~BothFailed]_vars

\* C5 witness: both attempts failed and the run is over.
C5_Witness == BothFailed /\ pc = "no_camera" /\ cap = "none"

\* What the log file holds once set up: what it held at start, the header
\* if it had to be created, and the records of this run.
ExpectedFile ==
    file0 \o (IF existed0 THEN << >> ELSE <<HeaderLine>>) \o appended

\* C6: a read failure after the source opened ends the loop in that
\* iteration: the read is not retried, nothing is pushed to the window and
\* no record is written in it, and the run goes on to release the source
\* and return.
C6_ReadFailureTerminal ==
    exitCause = "read_failure" =>
        /\ pc \in {"release", "done"}
        /\ reads = frames + 1
        /\ Len(pushed) = frames
        /\ Len(gates) = frames
        /\ file = ExpectedFile
        /\ Len(appended) = (IF gates = << >> THEN 0
                            ELSE gates[Len(gates)].count)
        /\ pc = "release" => cap = "open" /\ ENABLED Release
        /\ pc = "done" => cap = "released"

\* C6 witness: after frames were processed and a record written, a read
\* failed and the run ended with the source released.
C6_Witness ==
    /\ exitCause = "read_failure"
    /\ pc = "done"
    /\ cap = "released"
    /\ frames >= 2
    /\ Len(appended) >= 1

\* C7: a run that opened a source leaves the loop only by a read failure
\* or a stop request, and whenever such a run has stopped the source has
\* been released.
C7_TwoExitsAndRelease ==
    (cap # "none" /\ pc \notin LoopPcs \cup {"setup"}) =>
        /\ exitCause \in {"read_failure", "stop_request"}
        /\ pc \in {"release", "done"}
        /\ pc = "done" => cap = "released"

\* The i-th completed gate wrote exactly when it was due.
GateDecided(i) ==
    WrittenBy(i) = (IF gates[i].now - gates[i].last >= IntervalTicks
                    THEN 1 ELSE 0)

\* C8: a stop request is acted on only between cycles: when the loop has
\* been left on a stop request, every frame read has been detected,
\* classified and pushed to the window, and has passed the gate, with its
\* write if it was due; and a 'q' pressed while a cycle is in progress
\* does not take the loop out of that cycle.
C8_NoMidCycleStop ==
    /\ [](exitCause = "stop_request" =>
            /\ reads = frames
            /\ Len(pushed) = frames
            /\ Len(gates) = frames
            /\ \A i \in 1..Len(gates) : GateDecided(i)
            /\ Len(appended) = gates[Len(gates)].count
            /\ file = ExpectedFile)
    /\ [][(IsQuit(key) /\ pc \in {"process", "log"}) =>
            exitCause' # "stop_request"]_vars
    /\ [][exitCause' = "stop_request" =>
            pc \in {"waitkey", "release", "done"}]_vars

\* C8 witness: 'q' is pending while the gate of the current cycle is due
\* and has not been passed yet.
C8_WitnessPending ==
    /\ pc = "log"
    /\ IsQuit(key)
    /\ clock - last_log_time >= IntervalTicks

\* C8 witness: the loop was left on a stop request after a cycle whose
\* gate wrote.
C8_Witness ==
    /\ exitCause = "stop_request"
    /\ pc = "done"
    /\ Len(gates) >= 1
    /\ WrittenBy(Len(gates)) = 1

Min(a, b) == IF a <= b THEN a ELSE b

\* The sum of s[a..b].
RECURSIVE SumRange(_, _, _)
SumRange(s, a, b) == IF a > b THEN 0 ELSE s[b] + SumRange(s, a, b - 1)

\* C9: the window is a FIFO of capacity 30 that starts empty: after k
\* processed frames it holds the last min(k, 30) ratios in arrival order,
\* and the smoothed value is their arithmetic mean; so after 31 pushes the
\* first value pushed is neither in the window nor in the mean.
C9_WindowIsLast30 ==
    LET k == Len(pushed)
        m == Min(k, 30)
    IN  /\ pc \in {"open_gst", "open_idx", "setup", "no_camera"} => k = 0
        /\ k = (IF pc \in {"process"} THEN frames - 1 ELSE frames)
        /\ Len(engagement_history) = m
        /\ engagement_history = SubSeq(pushed, k - m + 1, k)
        /\ k > 0 =>
              smooth_engagement[1] * (Den * m)
                  = SumRange(pushed, k - m + 1, k) * smooth_engagement[2]

\* C9 witness: after 31 pushes the first value pushed, which was not zero,
\* is gone from the window and the mean is that of the other thirty,
\* which differs from the mean of all 31.
C9_Witness ==
    /\ Len(pushed) = 31
    /\ pushed[1] > 0
    /\ \A i \in 1..Len(engagement_history) :
          engagement_history[i] # pushed[1]
    /\ smooth_engagement[1] * (Den * 30)
          = SumRange(pushed, 2, 31) * smooth_engagement[2]
    /\ smooth_engagement[1] * (Den * 31)
          # SumRange(pushed, 1, 31) * smooth_engagement[2]

\* C10: with a camera opened, a store that did not exist is created with
\* exactly the header line before any record; an existing store gets no
\* header and its content is kept; from then on the store holds what it
\* held at start, the header if it was created, and the records appended
\* so far, in that order.
C10_HeaderThenAppendOnly ==
    /\ pc \in {"open_gst", "open_idx", "setup", "no_camera"} =>
          file = file0 /\ fileExists = existed0 /\ appended = << >>
    /\ pc \notin {"open_gst", "open_idx", "setup", "no_camera"} =>
          /\ fileExists
          /\ file = ExpectedFile
          /\ ~existed0 => file[1] = HeaderLine
          /\ SubSeq(file, 1, Len(file0)) = file0
          /\ \A i \in 1..Len(appended) : appended[i] # HeaderLine

\* C10 witness: the store did not exist, was created with the header, and
\* two records were appended after it.
C10_WitnessCreated ==
    /\ ~existed0
    /\ Len(appended) = 2
    /\ file = <<HeaderLine>> \o appended

\* C10 witness: the store existed with content, which is still in front of
\* the two records appended.
C10_Witness ==
    /\ existed0
    /\ Len(file0) = 2
    /\ Len(appended) = 2
    /\ file = file0 \o appended

\* A frame has been processed and its values are the current locals.
Processed == frames >= 1 /\ Len(pushed) = frames

\* The frame of the spec's end-to-end scenario.
ScenarioFrame ==
    <<640, 480, << <<200, 100, 260, 160>>, <<0, 0, 50, 50>> >> >>

\* C11: for a frame with n > 0 detections engagement_ratio is
\* engaged_count / n with 0 <= engaged_count <= n, so it lies in [0,1]; for
\* a frame with no detection it is exactly 0 and is pushed to the window
\* like any other; the scenario frame gives num_students 2, engaged_count
\* 1 and ratio 0.5.
C11_RatioPerFrame ==
    Processed =>
        LET ratio == pushed[Len(pushed)]
        IN  /\ num_students = Len(FrameAt(frames)[3])
            /\ 0 <= engaged_count /\ engaged_count <= num_students
            /\ num_students > 0 =>
                  /\ ratio * num_students = engaged_count * Den
                  /\ 0 <= ratio /\ ratio <= Den
            /\ num_students = 0 => ratio = 0
            /\ engagement_history[Len(engagement_history)] = ratio
            /\ FrameAt(frames) = ScenarioFrame =>
                  /\ num_students = 2
                  /\ engaged_count = 1
                  /\ 2 * ratio = Den

\* C11 witness: the scenario frame has been processed, after a frame with
\* no detection whose ratio 0 is in the window.
C11_Witness ==
    /\ Processed
    /\ frames >= 2
    /\ FrameAt(frames) = ScenarioFrame
    /\ 2 * pushed[frames] = Den
    /\ FrameAt(frames - 1)[3] = << >>
    /\ engagement_history[Len(engagement_history) - 1] = 0

\* Twice the centre of a box, so that half pixels stay whole numbers.
TwiceCx(box) == box[1] + box[3]

TwiceCy(box) == box[2] + box[4]

\* The zone rule of the claim, in hundredths: 0.33 w < cx < 0.66 w and
\* cy < 0.66 h.
InZone(box, w, h) ==
    /\ 33 * w * 2 < 100 * TwiceCx(box)
    /\ 100 * TwiceCx(box) < 66 * w * 2
    /\ 100 * TwiceCy(box) < 66 * h * 2

\* C12: a detection is engaged iff its centre satisfies 0.33 w < cx <
\* 0.66 w and cy < 0.66 h, all bounds exclusive: a box centred exactly at
\* x = 0.33 w or exactly at y = 0.66 h is not engaged, and a box centred
\* at (0.5 w, 0.5 h) is, whatever w, h > 0.
C12_ZoneRule ==
    Processed =>
        LET frame == FrameAt(frames)
            w     == frame[1]
            h     == frame[2]
            boxes == frame[3]
            inside == { i \in 1..Len(boxes) : InZone(boxes[i], w, h) }
        IN  /\ engaged_count = Cardinality(inside)
            /\ Len(boxes) = 1 =>
                  /\ 100 * TwiceCx(boxes[1]) = 33 * w * 2 => engaged_count = 0
                  /\ 100 * TwiceCy(boxes[1]) = 66 * h * 2 => engaged_count = 0
                  /\ (TwiceCx(boxes[1]) = w /\ TwiceCy(boxes[1]) = h) =>
                        engaged_count = 1

\* C12 witness: a box centred exactly at x = 0.33 w, with its y in the
\* zone, was classified, and it was not counted as engaged.
C12_Witness ==
    /\ Processed
    /\ Len(FrameAt(frames)[3]) = 1
    /\ 100 * TwiceCx(FrameAt(frames)[3][1]) = 33 * FrameAt(frames)[1] * 2
    /\ 100 * TwiceCy(FrameAt(frames)[3][1]) < 66 * FrameAt(frames)[2] * 2
    /\ engaged_count = 0

\* The iteration whose gate wrote the j-th record of this run.
WriterOf(j) ==
    CHOOSE i \in 1..Len(gates) : gates[i].count = j /\ WrittenBy(i) = 1

\* e thousandths is the fraction num / den rounded to three decimals.
IsRounded3(e, num, den) ==
    /\ 2 * (1000 * num - e * den) <= den
    /\ 2 * (e * den - 1000 * num) <= den

\* C13: every record carries the values of the iteration that wrote it:
\* num_students is the number of detections of the frame read in that
\* iteration, and engagement is the mean, to three decimals, of the window
\* after that frame's ratio was pushed, that is of the ratios of that frame
\* and of at most the 29 frames before it; its timestamp is the second of
\* that iteration's gate.  (Records change only in the gate step, so they
\* are examined in the state that follows it.)
C13_RecordOfItsIteration ==
    /\ Len(appended) = (IF gates = << >> THEN 0 ELSE gates[Len(gates)].count)
    /\ pc = "waitkey" => \A j \in 1..Len(appended) :
        /\ \E i \in 1..Len(gates) : gates[i].count = j /\ WrittenBy(i) = 1
        /\ LET i  == WriterOf(j)
               lo == IF i > 30 THEN i - 29 ELSE 1
           IN  /\ appended[j].n = Len(FrameAt(i)[3])
               /\ IsRounded3(appended[j].eng,
                             SumRange(pushed, lo, i), Den * (i - lo + 1))
               /\ appended[j].ts * TicksPerSec <= gates[i].now
               /\ gates[i].now < (appended[j].ts + 1) * TicksPerSec

\* C13 witness: a record was written in the 31st iteration or later, by a
\* frame whose own ratio differs from the mean that was logged, and the
\* frame before it had another number of detections.
C13_Witness ==
    \E j \in 1..Len(appended) :
        \E i \in 31..Len(gates) :
            /\ gates[i].count = j /\ WrittenBy(i) = 1
            /\ appended[j].n # Len(FrameAt(i - 1)[3])
            /\ appended[j].eng * Den # 1000 * pushed[i]

\* C14: within a run at most one record is appended per iteration, the
\* gate clocks of any two records differ by at least LOG_INTERVAL, and
\* when the gate clock reads T after the run's start at most
\* floor(T / LOG_INTERVAL) records have been appended.  (The gates are
\* examined in the state that follows each gate step.)
C14_MinimumSpacing ==
    /\ Len(gates) \in {frames - 1, frames}
    /\ Len(appended) = (IF gates = << >> THEN 0 ELSE gates[Len(gates)].count)
    /\ pc = "waitkey" =>
          /\ \A i \in 1..Len(gates) : WrittenBy(i) \in {0, 1}
          /\ \A i, j \in 1..Len(gates) :
                (i < j /\ WrittenBy(i) = 1 /\ WrittenBy(j) = 1) =>
                    gates[j].now - gates[i].now >= 10 * TicksPerSec
          /\ \A i \in 1..Len(gates) :
                gates[i].count * 10 * TicksPerSec <= gates[i].now - StartTime

\* C14 witness: two consecutive records were written exactly LOG_INTERVAL
\* apart, with a gate between them that wrote nothing.
C14_Witness ==
    \E i, j \in 1..Len(gates) :
        /\ i + 1 < j
        /\ WrittenBy(i) = 1 /\ WrittenBy(j) = 1
        /\ gates[j].count = gates[i].count + 1
        /\ gates[j].now - gates[i].now = 10 * TicksPerSec
        /\ WrittenBy(i + 1) = 0

\* C15: last_log_time starts at the run's start time, so no iteration whose
\* gate clock reads less than LOG_INTERVAL after the start appends a
\* record, and a run that is stopped or loses its camera before then
\* leaves the store with no new record, only the header if it had to be
\* created.
C15_NoRecordInFirstInterval ==
    /\ pc \in LoopPcs => last_log_time >= StartTime
    /\ \A i \in 1..Len(gates) :
          gates[i].now - StartTime < 10 * TicksPerSec =>
              /\ WrittenBy(i) = 0
              /\ gates[i].count = 0
              /\ gates[i].last = StartTime
    /\ clock - StartTime < 10 * TicksPerSec =>
          /\ appended = << >>
          /\ pc \in {"release", "done"} =>
                file = file0 \o (IF existed0 THEN << >> ELSE <<HeaderLine>>)

\* C15 witness: a run that passed one gate, 5 seconds after the start, was
\* stopped by the operator and has ended; the store, which did not exist,
\* holds the header only.
C15_Witness ==
    /\ pc = "done"
    /\ exitCause = "stop_request"
    /\ Len(gates) = 1
    /\ gates[1].now - StartTime = 5 * TicksPerSec
    /\ ~existed0
    /\ file = <<HeaderLine>>

\* C16: once a frame has been processed the window is not empty and every
\* value in it lies in [0,1], so the smoothed engagement then shown, and
\* every engagement value logged, lies in [0,1]; the smoothed value of a
\* processed frame is a mean over the window's length, never the
\* empty-window default.
C16_SmoothedInUnitInterval ==
    /\ Len(pushed) >= 1 =>
          /\ Len(engagement_history) >= 1
          /\ \A i \in 1..Len(engagement_history) :
                0 <= engagement_history[i] /\ engagement_history[i] <= Den
          /\ smooth_engagement[2] = Den * Len(engagement_history)
          /\ 0 <= smooth_engagement[1]
          /\ smooth_engagement[1] <= smooth_engagement[2]
    /\ \A j \in 1..Len(appended) :
          0 <= appended[j].eng /\ appended[j].eng <= 1000

\* C16 witness: a full window of ratios 1 was logged as 1.000 after
\* records with a smaller value.
C16_Witness ==
    /\ Len(engagement_history) = 30
    /\ \A i \in 1..30 : engagement_history[i] = Den
    /\ Len(appended) >= 2
    /\ appended[Len(appended)].eng = 1000
    /\ appended[1].eng < 1000

=============================================================================
